---- MODULE Spec2Model ----
(***************************************************************************)
(* Model of cms/models/titlemodels.py (TitleManager, Title) and            *)
(* cms/models/query.py (PageQuerySet).                                     *)
(*                                                                         *)
(* The Title table is a sequence of rows; a row's primary key is its       *)
(* position (keys are handed out in insertion order and never reused).     *)
(* The caller of the ORM holds at most one Title instance, obj, which may  *)
(* differ from its stored row until it is saved.  A nullable date, site or *)
(* argument is a set: empty for None, else a singleton.                    *)
(*                                                                         *)
(* Spec        life cycle of one Title instance: edits, saves, deletes     *)
(* SpecCreate  sequences of set_or_create calls on an empty table          *)
(* SpecUpsert  one set_or_create call, every form, no row or one row       *)
(* SpecLookup  one get_title call on every small table                     *)
(* SpecPath    one update_path call on every small table                   *)
(* SpecQuery   one on_site or published query on every small Page table    *)
(***************************************************************************)
EXTENDS Integers, Sequences, FiniteSets, TLC

VARIABLES
    pages,         \* the Page table: page id -> [site, parent, publication_date, publication_end_date]
    current_site,  \* what Site.objects.get_current() resolves to: {} (DoesNotExist) or {site}
    now,           \* timezone.now()
    db,            \* the Title table
    obj,           \* the Title instance held by the caller, or NoObj
    left,          \* number of operations the run may still perform
    called,        \* the (page, language) pairs passed to set_or_create so far
    last           \* the last operation: its name, its arguments, the state it started from, its result

vars == <<pages, current_site, now, db, obj, left, called, last>>

---------------------------------------------------------------------------
(* Bounds *)

NumPages == 2
NumLangs == 2
MaxRows == 2
MaxSteps == 4

(* Program constants *)

PUBLISHER_STATE_DEFAULT == 0
PUBLISHER_STATE_DIRTY == 1
BackfillSeconds == 5

---------------------------------------------------------------------------
(* Values *)

NONE == "<None>"       \* Python's None
ABSENT == "<absent>"   \* a key that a dict does not hold

LangNames == <<"en", "de", "fr", "it">>
Langs == {LangNames[i] : i \in 1..NumLangs}
Pages == 1..NumPages
Sites == {"s1", "s2"}

SiteOptions == {{}} \cup {{s} : s \in Sites}

\* u'%s' % value
Str(v) == IF v = NONE THEN "None" ELSE v

\* bool(value) of a string or None
Truthy(v) == v # NONE /\ v # ""

---------------------------------------------------------------------------
(* The Title entity *)

TitleDefaults ==
    [ title |-> "", page_title |-> NONE, menu_title |-> NONE,
      meta_description |-> NONE, slug |-> "", path |-> "",
      has_url_overwrite |-> FALSE, redirect |-> NONE,
      published |-> FALSE, publisher_is_draft |-> TRUE,
      publisher_state |-> PUBLISHER_STATE_DEFAULT ]

ContentFields ==
    { "title", "page_title", "menu_title", "meta_description", "slug", "path",
      "has_url_overwrite", "redirect", "published", "publisher_is_draft",
      "publisher_state" }

NoObj == [held |-> FALSE]

\* Title(page=page, language=language): an unsaved instance
NewInstance(page, language) ==
    [ f \in ContentFields \cup {"held", "pk", "page", "language", "keep", "page_publication_date"} |->
        CASE f = "held" -> TRUE
          [] f = "pk" -> 0
          [] f = "page" -> page
          [] f = "language" -> language
          [] f = "keep" -> FALSE
          [] f = "page_publication_date" -> pages[page].publication_date
          [] OTHER -> TitleDefaults[f] ]

\* the row an instance is stored as
RowOf(inst) ==
    [ f \in ContentFields \cup {"alive", "page", "language"} |->
        IF f = "alive" THEN TRUE ELSE inst[f] ]

\* the instance a stored row is loaded as
Load(d, pk) ==
    [ f \in ContentFields \cup {"held", "pk", "page", "language", "keep", "page_publication_date"} |->
        CASE f = "held" -> TRUE
          [] f = "pk" -> pk
          [] f = "keep" -> FALSE
          [] f = "page_publication_date" -> pages[d[pk].page].publication_date
          [] OTHER -> d[pk][f] ]

Alive(d) == {i \in DOMAIN d : d[i].alive}

---------------------------------------------------------------------------
(* TitleManager.get_title *)

\* self.get(language=language, page=page): the keys of the matching rows
Get(d, page, language) ==
    {i \in Alive(d) : d[i].page = page /\ d[i].language = language}

\* self.filter(page=page), in the order the rows are stored
TitlesOfPage(d, page) ==
    SelectSeq([i \in 1..Len(d) |-> i], LAMBDA i : d[i].alive /\ d[i].page = page)

Found(pk) == [kind |-> "title", pk |-> pk]
ReturnsNone == [kind |-> "None", pk |-> 0]
RaisesDoesNotExist == [kind |-> "DoesNotExist", pk |-> 0]

\* for title in titles: if lang == title.language: return title
RECURSIVE ScanTitles(_, _, _)
ScanTitles(d, titles, lang) ==
    IF titles = <<>> THEN 0
    ELSE IF d[Head(titles)].language = lang THEN Head(titles)
    ELSE ScanTitles(d, Tail(titles), lang)

\* for lang in fallbacks: ...; return None
RECURSIVE ScanFallbacks(_, _, _)
ScanFallbacks(d, titles, fallbacks) ==
    IF fallbacks = <<>> THEN ReturnsNone
    ELSE LET hit == ScanTitles(d, titles, Head(fallbacks)) IN
         IF hit # 0 THEN Found(hit)
         ELSE ScanFallbacks(d, titles, Tail(fallbacks))

\* Mutant: the loops nested the other way round, the titles outside
RECURSIVE ScanTitlesFirst(_, _, _)
ScanTitlesFirst(d, titles, fallbacks) ==
    IF titles = <<>> THEN ReturnsNone
    ELSE IF \E k \in DOMAIN fallbacks : fallbacks[k] = d[Head(titles)].language
         THEN Found(Head(titles))
         ELSE ScanTitlesFirst(d, Tail(titles), fallbacks)

get_title_titles_first(d, page, language, language_fallback, fallbacks) ==
    LET exact == Get(d, page, language) IN
    IF exact # {} THEN Found(CHOOSE i \in exact : TRUE)
    ELSE IF language_fallback THEN ScanTitlesFirst(d, TitlesOfPage(d, page), fallbacks)
    ELSE RaisesDoesNotExist

get_title(d, page, language, language_fallback, fallbacks) ==
    LET exact == Get(d, page, language) IN
    IF exact # {} THEN Found(CHOOSE i \in exact : TRUE)
    ELSE IF language_fallback THEN ScanFallbacks(d, TitlesOfPage(d, page), fallbacks)
    ELSE RaisesDoesNotExist

---------------------------------------------------------------------------
(* Title.update_path *)

\* Mutant: the parent's title looked up without language fallback
update_path_exact_only(inst, d, fallbacks) ==
    LET slug == Str(inst.slug) IN
    IF inst.has_url_overwrite THEN inst
    ELSE IF pages[inst.page].parent # 0
         THEN LET parent_title == get_title(d, pages[inst.page].parent, inst.language, FALSE, fallbacks) IN
              IF parent_title.kind = "title"
              THEN [inst EXCEPT !.path = Str(d[parent_title.pk].path) \o "/" \o slug]
              ELSE [inst EXCEPT !.path = slug]
         ELSE [inst EXCEPT !.path = slug]

update_path(inst, d, fallbacks) ==
    LET slug == Str(inst.slug) IN
    IF inst.has_url_overwrite THEN inst
    ELSE IF pages[inst.page].parent # 0
         THEN LET parent_title == get_title(d, pages[inst.page].parent, inst.language, TRUE, fallbacks) IN
              IF parent_title.kind = "title"
              THEN [inst EXCEPT !.path = Str(d[parent_title.pk].path) \o "/" \o slug]
              ELSE [inst EXCEPT !.path = slug]
         ELSE [inst EXCEPT !.path = slug]

---------------------------------------------------------------------------
(* Title.is_new_dirty, Title.save_base *)

TrackedFields ==
    {"title", "page_title", "menu_title", "meta_description", "slug", "has_url_overwrite", "redirect"}

\* Mutant: redirect left out of the compared fields
is_new_dirty_without_redirect(inst, d) ==
    IF inst.pk # 0
    THEN IF inst.pk \notin Alive(d) THEN TRUE
         ELSE \E f \in TrackedFields \ {"redirect"} : ~(d[inst.pk][f] = inst[f])
    ELSE TRUE

is_new_dirty(inst, d) ==
    IF inst.pk # 0
    THEN IF inst.pk \notin Alive(d) THEN TRUE
         ELSE \E f \in TrackedFields : ~(d[inst.pk][f] = inst[f])
    ELSE TRUE

\* The columns declared without null=True
NotNullFields == {"title", "slug", "path"}

\* super(Title, self).save_base(): writes the row, or raises IntegrityError and
\* leaves the table alone.  A new instance gets the next key; an instance whose
\* row is gone is inserted again under its key.
ModelSaveBase(inst, d) ==
    LET clash == {i \in Get(d, inst.page, inst.language) : i # inst.pk}
        valid == clash = {} /\ \A f \in NotNullFields : inst[f] # NONE
        saved == IF inst.pk = 0 THEN [inst EXCEPT !.pk = Len(d) + 1] ELSE inst
    IN IF ~valid THEN [ok |-> FALSE, inst |-> inst, db |-> d]
       ELSE [ ok |-> TRUE, inst |-> saved,
              db |-> IF inst.pk = 0 THEN Append(d, RowOf(saved))
                     ELSE [d EXCEPT ![inst.pk] = RowOf(saved)] ]

\* Mutant: the keep-state attribute is read but never deleted
save_base_keeps_flag(inst, d, t) ==
    LET keep_state == inst.keep
        dated == IF inst.page_publication_date = {} /\ inst.published
                 THEN [inst EXCEPT !.page_publication_date = {t - BackfillSeconds}]
                 ELSE inst
        marked == IF dated.publisher_is_draft /\ ~keep_state /\ is_new_dirty(dated, d)
                  THEN [dated EXCEPT !.publisher_state = PUBLISHER_STATE_DIRTY]
                  ELSE dated
    IN ModelSaveBase(marked, d)

save_base(inst, d, t) ==
    LET keep_state == inst.keep
        dated == IF inst.page_publication_date = {} /\ inst.published
                 THEN [inst EXCEPT !.page_publication_date = {t - BackfillSeconds}]
                 ELSE inst
        marked == IF dated.publisher_is_draft /\ ~keep_state /\ is_new_dirty(dated, d)
                  THEN [dated EXCEPT !.publisher_state = PUBLISHER_STATE_DIRTY]
                  ELSE dated
        cleared == IF keep_state THEN [marked EXCEPT !.keep = FALSE] ELSE marked
    IN ModelSaveBase(cleared, d)

---------------------------------------------------------------------------
(* TitleManager.set_or_create *)

BaseFields == {"slug", "title", "meta_description", "page_title", "menu_title"}
AdvancedFields == {"redirect"}
FormNames == BaseFields \cup AdvancedFields \cup {"overwrite_url"}

\* name in cleaned_data
Has(cleaned_data, name) == cleaned_data[name] # ABSENT
\* cleaned_data.get(name, None)
GetOrNone(cleaned_data, name) == IF Has(cleaned_data, name) THEN cleaned_data[name] ELSE NONE

\* the except branch: build the keyword arguments and create the row
CreateTitle(d, page, language, perm, form, t) ==
    LET cleaned_data == form.cleaned_data
        overwrite_url == GetOrNone(cleaned_data, "overwrite_url")
        blank == NewInstance(page, language)
        data == [ f \in DOMAIN blank |->
                    IF f \in BaseFields /\ Has(cleaned_data, f) THEN cleaned_data[f]
                    ELSE IF perm /\ f = "has_url_overwrite" THEN Truthy(overwrite_url)
                    ELSE IF perm /\ f = "path" /\ Truthy(overwrite_url) THEN overwrite_url
                    ELSE IF perm /\ f \in AdvancedFields THEN GetOrNone(cleaned_data, f)
                    ELSE blank[f] ]
    IN save_base(data, d, t)

\* the update branch: overwrite the declared fields of the existing row and save
UpdateTitle(d, pk, perm, form, t) ==
    LET cleaned_data == form.cleaned_data
        old == Load(d, pk)
        edited == [ f \in DOMAIN old |->
                      IF f \in BaseFields /\ f \in form.base_fields THEN GetOrNone(cleaned_data, f)
                      ELSE IF perm /\ f = "has_url_overwrite" /\ Has(cleaned_data, "overwrite_url")
                           THEN Truthy(cleaned_data["overwrite_url"])
                      ELSE IF perm /\ f = "path" /\ Has(cleaned_data, "overwrite_url")
                           THEN cleaned_data["overwrite_url"]
                      ELSE IF perm /\ f \in AdvancedFields /\ f \in form.base_fields
                           THEN GetOrNone(cleaned_data, f)
                      ELSE old[f] ]
    IN save_base(edited, d, t)

\* Mutant: the update branch without the permission check
set_or_create_ungated(d, page, language, perm, form, t) ==
    LET found == Get(d, page, language) IN
    IF found = {} THEN CreateTitle(d, page, language, perm, form, t)
    ELSE UpdateTitle(d, CHOOSE i \in found : TRUE, TRUE, form, t)

\* Mutant: the existing row looked up by page alone
set_or_create_by_page(d, page, language, perm, form, t) ==
    LET found == {i \in Alive(d) : d[i].page = page} IN
    IF found = {} THEN CreateTitle(d, page, language, perm, form, t)
    ELSE UpdateTitle(d, CHOOSE i \in found : TRUE, perm, form, t)

set_or_create(d, page, language, perm, form, t) ==
    LET found == Get(d, page, language) IN
    IF found = {} THEN CreateTitle(d, page, language, perm, form, t)
    ELSE UpdateTitle(d, CHOOSE i \in found : TRUE, perm, form, t)


---------------------------------------------------------------------------
(* PageQuerySet *)

\* Q(field__lte=t), Q(field__gt=t), Q(field__isnull=True) on a nullable date
Lte(date, t) == \E x \in date : x <= t
Gt(date, t) == \E x \in date : x > t
IsNull(date) == date = {}

\* Mutant: no filter at all when no site can be resolved
on_site_unscoped(qs, site) ==
    LET resolved == IF site = {} THEN current_site ELSE site IN
    IF resolved = {} THEN qs ELSE {p \in qs : pages[p].site = resolved}

\* site: {} when the caller passes none, {s} otherwise.  filter(site=None)
\* keeps the rows whose site is null.
on_site(qs, site) ==
    LET resolved == IF site = {} THEN current_site ELSE site IN
    {p \in qs : pages[p].site = resolved}

\* Mutant: the two title_set conditions in separate filter() calls, so that
\* different Titles may meet them
published_any_title(qs, language, site) ==
    {p \in on_site(qs, site) :
        /\ Lte(pages[p].publication_date, now) \/ IsNull(pages[p].publication_date)
        /\ Gt(pages[p].publication_end_date, now) \/ IsNull(pages[p].publication_end_date)
        /\ \E i \in Alive(db) : db[i].page = p /\ db[i].published
        /\ language # {} => \E i \in Alive(db) : db[i].page = p /\ db[i].language \in language}

\* language: {} when the caller passes none, {l} otherwise.  Both title_set
\* conditions stand in one filter() call, so one Title must meet both.
published(qs, language, site) ==
    IF language # {}
    THEN {p \in on_site(qs, site) :
            /\ Lte(pages[p].publication_date, now) \/ IsNull(pages[p].publication_date)
            /\ Gt(pages[p].publication_end_date, now) \/ IsNull(pages[p].publication_end_date)
            /\ \E i \in Alive(db) :
                  db[i].page = p /\ db[i].published /\ db[i].language \in language}
    ELSE {p \in on_site(qs, site) :
            /\ Lte(pages[p].publication_date, now) \/ IsNull(pages[p].publication_date)
            /\ Gt(pages[p].publication_end_date, now) \/ IsNull(pages[p].publication_end_date)
            /\ \E i \in Alive(db) : db[i].page = p /\ db[i].published}

---------------------------------------------------------------------------
(* Inputs *)

\* the sequences of at most n distinct elements of S
RECURSIVE Arrangements(_, _)
Arrangements(S, n) ==
    IF n = 0 THEN {<<>>}
    ELSE LET shorter == Arrangements(S, n - 1) IN
         shorter \cup
         {Append(q[1], q[2]) :
            q \in {r \in shorter \X S : \A i \in DOMAIN r[1] : r[1][i] # r[2]}}

\* what get_fallback_languages(language) may return
FallbackChains == Arrangements(Langs, NumLangs)

\* a language code no Title is stored under
OtherLang == "xx"

FormData(keys, slug, overwrite_url) ==
    [ n \in FormNames |->
        IF n \notin keys THEN ABSENT
        ELSE CASE n = "slug" -> slug
               [] n = "overwrite_url" -> overwrite_url
               [] n = "redirect" -> "r"
               [] OTHER -> "t" ]

Form(declared, keys, slug, overwrite_url) ==
    [base_fields |-> declared, cleaned_data |-> FormData(keys, slug, overwrite_url)]

NoForm == Form({}, {}, "", "")

\* Every set of declared fields; cleaned_data holds the declared fields, or
\* lacks the slug, or also holds an overwrite_url put there by clean().
WideForms ==
    { Form(q[1], q[2], "a", q[3]) :
        q \in { r \in (SUBSET FormNames) \X (SUBSET FormNames) \X {"", "o"} :
                  r[2] \in {r[1], r[1] \ {"slug"}, r[1] \cup {"overwrite_url"}} } }

\* Requests (permission, form): the page form, the advanced settings form
\* and, without the permission, a page form whose slug did not reach cleaned_data.
SmallRequests ==
    { <<TRUE, Form(BaseFields, BaseFields, "a", "")>>,
      <<TRUE, Form(AdvancedFields \cup {"overwrite_url"}, AdvancedFields \cup {"overwrite_url"}, "", "o")>>,
      <<FALSE, Form(BaseFields, BaseFields \ {"slug"}, "", "")>> }

\* attribute assignments made by code outside the excerpt
EditableFields ==
    TrackedFields \cup {"published", "publisher_is_draft", "publisher_state", "keep"}

EditValue(field) ==
    CASE field = "slug" -> "b"
      [] field = "has_url_overwrite" -> TRUE
      [] field = "published" -> TRUE
      [] field = "publisher_is_draft" -> FALSE
      [] field = "publisher_state" -> PUBLISHER_STATE_DEFAULT
      [] field = "keep" -> TRUE
      [] field = "redirect" -> "r"
      [] OTHER -> "t2"

\* a stored row of (page, language) with the given content
Row(page, language, content) ==
    [ f \in ContentFields \cup {"alive", "page", "language"} |->
        CASE f = "alive" -> TRUE
          [] f = "page" -> page
          [] f = "language" -> language
          [] f \in DOMAIN content -> content[f]
          [] OTHER -> TitleDefaults[f] ]

---------------------------------------------------------------------------
(* Operations *)

NoPrev == [op |-> "none", ok |-> FALSE, exempt |-> FALSE, changed |-> FALSE]

InitOp ==
    [ op |-> "init", page |-> 0, language |-> {}, site |-> {}, perm |-> FALSE,
      form |-> NoForm, fallbacks |-> <<>>, ret |-> [ok |-> TRUE],
      db |-> <<>>, obj |-> NoObj, prev |-> NoPrev ]

\* the rows stored for (page, language)
RowsFor(d, page, language) ==
    {i \in DOMAIN d : d[i].alive /\ d[i].page = page /\ d[i].language = language}

\* the instance has no key, or no stored row, or differs from its stored row
\* in one of the seven tracked fields
DiffersFromStored(inst, d) ==
    \/ inst.pk = 0
    \/ ~(inst.pk \in DOMAIN d /\ d[inst.pk].alive)
    \/ d[inst.pk].title # inst.title
    \/ d[inst.pk].page_title # inst.page_title
    \/ d[inst.pk].menu_title # inst.menu_title
    \/ d[inst.pk].meta_description # inst.meta_description
    \/ d[inst.pk].slug # inst.slug
    \/ d[inst.pk].has_url_overwrite # inst.has_url_overwrite
    \/ d[inst.pk].redirect # inst.redirect

\* what the operation before this one was
Prev ==
    IF last.op = "save"
    THEN [ op |-> "save", ok |-> last.ret.ok, exempt |-> last.obj.keep,
           changed |-> last.obj.pk \in Alive(last.db) /\ DiffersFromStored(last.obj, last.db) ]
    ELSE [NoPrev EXCEPT !.op = last.op]

Op(name, page, language, site, perm, form, fallbacks, ret) ==
    [ op |-> name, page |-> page, language |-> language, site |-> site,
      perm |-> perm, form |-> form, fallbacks |-> fallbacks, ret |-> ret,
      db |-> db, obj |-> obj, prev |-> Prev ]

SetOrCreate(page, language, perm, form) ==
    LET r == set_or_create(db, page, language, perm, form, now) IN
    /\ left > 0
    /\ db' = r.db
    /\ obj' = IF r.ok THEN r.inst ELSE obj
    /\ left' = left - 1
    /\ called' = called \cup {<<page, language>>}
    /\ last' = Op("set_or_create", page, {language}, {}, perm, form, <<>>, r)
    /\ UNCHANGED <<pages, current_site, now>>

\* the caller assigns an attribute of the instance it holds
SetAttr(field, value) ==
    /\ left > 0
    /\ obj # NoObj
    /\ obj[field] # value
    /\ obj' = [obj EXCEPT ![field] = value]
    /\ left' = left - 1
    /\ last' = Op("setattr", 0, {}, {}, FALSE, NoForm, <<>>, [ok |-> TRUE])
    /\ UNCHANGED <<pages, current_site, now, db, called>>

UpdatePath(fallbacks) ==
    /\ left > 0
    /\ obj # NoObj
    /\ obj' = update_path(obj, db, fallbacks)
    /\ left' = left - 1
    /\ last' = Op("update_path", 0, {}, {}, FALSE, NoForm, fallbacks, [ok |-> TRUE])
    /\ UNCHANGED <<pages, current_site, now, db, called>>

Save ==
    /\ left > 0
    /\ obj # NoObj
    /\ LET r == save_base(obj, db, now) IN
         /\ db' = r.db
         /\ obj' = r.inst
         /\ last' = Op("save", 0, {}, {}, FALSE, NoForm, <<>>, r)
    /\ left' = left - 1
    /\ UNCHANGED <<pages, current_site, now, called>>

GetTitle(page, language, language_fallback, fallbacks) ==
    /\ left > 0
    /\ left' = left - 1
    /\ last' = Op("get_title", page, {language}, {}, language_fallback, NoForm, fallbacks,
                  get_title(db, page, language, language_fallback, fallbacks))
    /\ UNCHANGED <<pages, current_site, now, db, obj, called>>

\* Model.delete() of a stored row
Delete(pk) ==
    /\ left > 0
    /\ pk \in Alive(db)
    /\ db' = [db EXCEPT ![pk].alive = FALSE]
    /\ left' = left - 1
    /\ last' = Op("delete", 0, {}, {}, FALSE, NoForm, <<>>, [ok |-> TRUE])
    /\ UNCHANGED <<pages, current_site, now, obj, called>>

OnSite(site) ==
    /\ left > 0
    /\ left' = left - 1
    /\ last' = Op("on_site", 0, {}, site, FALSE, NoForm, <<>>, on_site(Pages, site))
    /\ UNCHANGED <<pages, current_site, now, db, obj, called>>

Published(language, site) ==
    /\ left > 0
    /\ left' = left - 1
    /\ last' = Op("published", 0, language, site, FALSE, NoForm, <<>>,
                  published(Pages, language, site))
    /\ UNCHANGED <<pages, current_site, now, db, obj, called>>

---------------------------------------------------------------------------
(* Specifications *)

\* a chain of pages, page 1 the root, all of one site and without dates
PageTree ==
    [ p \in Pages |->
        [site |-> {"s1"}, parent |-> p - 1, publication_date |-> {}, publication_end_date |-> {}] ]

\* Title life cycle: a caller holds an instance, stored or new, assigns
\* attributes, saves; the row may be deleted behind its back.
StoredRows ==
    { Row(1, "en", [title |-> "t", slug |-> "a", path |-> "a", publisher_state |-> s, publisher_is_draft |-> dr]) :
        s \in {PUBLISHER_STATE_DEFAULT, PUBLISHER_STATE_DIRTY}, dr \in BOOLEAN }

Init ==
    /\ pages = PageTree
    /\ current_site = {"s1"}
    /\ now = 0
    /\ db \in {<<r>> : r \in StoredRows}
    /\ obj \in {Load(db, 1), [NewInstance(1, "de") EXCEPT !.title = "t", !.slug = "a"]}
    /\ left = MaxSteps
    /\ called = {}
    /\ last = InitOp

Next ==
    \/ \E field \in EditableFields : SetAttr(field, EditValue(field))
    \/ Save
    \/ \E pk \in DOMAIN db : Delete(pk)

Spec == Init /\ [][Next]_vars

\* set_or_create calls, starting from an empty table
InitCreate ==
    /\ pages = PageTree
    /\ current_site = {"s1"}
    /\ now = 0
    /\ db = <<>>
    /\ obj = NoObj
    /\ left = MaxSteps - 1
    /\ called = {}
    /\ last = InitOp

NextCreate ==
    \E page \in Pages, language \in Langs, request \in SmallRequests :
        SetOrCreate(page, language, request[1], request[2])

SpecCreate == InitCreate /\ [][NextCreate]_vars

\* one set_or_create call on a table that holds no row or one row
ExistingRows ==
    { Row(1, "en", [ title |-> "old", page_title |-> "old", menu_title |-> "old",
                     meta_description |-> "old", slug |-> "old", path |-> "old",
                     has_url_overwrite |-> ow, redirect |-> rd, publisher_state |-> s ]) :
        ow \in BOOLEAN, rd \in {NONE, "old"},
        s \in {PUBLISHER_STATE_DEFAULT, PUBLISHER_STATE_DIRTY} }

InitUpsert ==
    /\ pages = PageTree
    /\ current_site = {"s1"}
    /\ now = 0
    /\ db \in {<<>>} \cup {<<r>> : r \in ExistingRows}
    /\ obj = NoObj
    /\ left = 1
    /\ called = {}
    /\ last = InitOp

NextUpsert ==
    \E page \in Pages, language \in Langs, perm \in BOOLEAN, form \in WideForms :
        SetOrCreate(page, language, perm, form)

SpecUpsert == InitUpsert /\ [][NextUpsert]_vars

\* one get_title call on a table of at most MaxRows rows, stored in any order
DrawnRow(key) ==
    Row(key[1], key[2], [title |-> "t", slug |-> key[2], path |-> key[2] \o ToString(key[1])])

DrawnStores ==
    { [i \in DOMAIN keys |-> DrawnRow(keys[i])] : keys \in Arrangements(Pages \X Langs, MaxRows) }

InitLookup ==
    /\ pages = PageTree
    /\ current_site = {"s1"}
    /\ now = 0
    /\ db \in DrawnStores
    /\ obj = NoObj
    /\ left = 1
    /\ called = {}
    /\ last = InitOp

NextLookup ==
    \E page \in Pages, language \in Langs \cup {OtherLang}, fb \in BOOLEAN, fallbacks \in FallbackChains :
        GetTitle(page, language, fb, fallbacks)

SpecLookup == InitLookup /\ [][NextLookup]_vars

\* one update_path call of an instance, on such a table
DrawnInstances ==
    { [NewInstance(page, language) EXCEPT
          !.title = "t", !.slug = slug, !.path = "old", !.has_url_overwrite = ow] :
        page \in Pages, language \in Langs \cup {OtherLang}, slug \in {"", "a"}, ow \in BOOLEAN }

InitPath ==
    /\ pages = PageTree
    /\ current_site = {"s1"}
    /\ now = 0
    /\ db \in DrawnStores
    /\ obj \in DrawnInstances
    /\ left = 1
    /\ called = {}
    /\ last = InitOp

NextPath == \E fallbacks \in FallbackChains : UpdatePath(fallbacks)

SpecPath == InitPath /\ [][NextPath]_vars

\* one query on a Page table: page 1 takes every site, publication window
\* and set of titles; the other pages take every site and hold one
\* published title.
Dates == {{}, {now - 1}, {now}, {now + 1}}

QueryPages ==
    { [ p \in Pages |->
          IF p = 1 THEN [site |-> q[1], parent |-> 0, publication_date |-> q[2], publication_end_date |-> q[3]]
          ELSE [site |-> q[4][p], parent |-> p - 1, publication_date |-> {}, publication_end_date |-> {}] ] :
        q \in SiteOptions \X Dates \X Dates \X [Pages \ {1} -> SiteOptions] }

\* page 1's titles: per language none, an unpublished one or a published one
QueryStores ==
    { LET keys == SelectSeq([i \in 1..NumLangs |-> LangNames[i]], LAMBDA l : st[l] # "none")
          first == [i \in DOMAIN keys |-> Row(1, keys[i], [published |-> st[keys[i]] = "published"])]
          rest == [i \in 1..(NumPages - 1) |-> Row(i + 1, LangNames[1], [published |-> TRUE])]
      IN first \o rest :
        st \in [Langs -> {"none", "unpublished", "published"}] }

InitQuery ==
    /\ now = 0
    /\ pages \in QueryPages
    /\ current_site \in SiteOptions
    /\ db \in QueryStores
    /\ obj = NoObj
    /\ left = 1
    /\ called = {}
    /\ last = InitOp

NextQuery ==
    \/ \E site \in SiteOptions : OnSite(site)
    \/ \E language \in {{}} \cup {{l} : l \in Langs}, site \in SiteOptions : Published(language, site)

SpecQuery == InitQuery /\ [][NextQuery]_vars

---------------------------------------------------------------------------
(* Properties *)

LastLanguage == CHOOSE l \in last.language : TRUE

InWindow(p) ==
    /\ pages[p].publication_date = {} \/ \E t \in pages[p].publication_date : t <= now
    /\ pages[p].publication_end_date = {} \/ \E t \in pages[p].publication_end_date : t > now

HasPublishedTitle(p, language) ==
    \E i \in DOMAIN db :
        /\ db[i].alive /\ db[i].page = p /\ db[i].published
        /\ language = {} \/ db[i].language \in language

\* C1: published(language, site) holds a page iff the page is in
\* on_site(site), its publication_date is unset or <= now, its
\* publication_end_date is unset or > now, and one of its Titles is published
\* and, when a language is given, is the Title of that language.  So a page
\* without dates is held iff it is on the site and has such a Title, and a
\* page whose end date is past is never held.
C1_PublishedMembership ==
    last.op = "published" =>
        \A p \in Pages :
            /\ p \in last.ret <=>
                  /\ p \in on_site(Pages, last.site)
                  /\ InWindow(p)
                  /\ HasPublishedTitle(p, last.language)
            /\ pages[p].publication_date = {} /\ pages[p].publication_end_date = {} =>
                  (p \in last.ret <=>
                      p \in on_site(Pages, last.site) /\ HasPublishedTitle(p, last.language))
            /\ (\E t \in pages[p].publication_end_date : t < now) => p \notin last.ret

\* published() was asked for a language and left out a page of the site,
\* inside its window, whose only published Title is of another language,
\* while it returned another page
C1_Witness ==
    /\ last.op = "published"
    /\ last.language # {}
    /\ last.ret # {}
    /\ \E p \in on_site(Pages, last.site) :
          /\ InWindow(p)
          /\ HasPublishedTitle(p, {})
          /\ RowsFor(db, p, LastLanguage) # {}
          /\ p \notin last.ret

\* the result get_title must give: the exact Title; else the failure or,
\* with fallback, the Title of the earliest chain entry the page has a Title
\* for, or None
ExpectedTitle(d, page, language, language_fallback, fallbacks) ==
    LET exact == RowsFor(d, page, language)
        hits == {k \in DOMAIN fallbacks : RowsFor(d, page, fallbacks[k]) # {}}
    IN IF exact # {} THEN {Found(i) : i \in exact}
       ELSE IF ~language_fallback THEN {RaisesDoesNotExist}
       ELSE IF hits = {} THEN {ReturnsNone}
       ELSE LET k == CHOOSE h \in hits : \A g \in hits : h <= g IN
            {Found(i) : i \in RowsFor(d, page, fallbacks[k])}

\* C5: get_title returns the exact (page, language) Title when there is
\* one; otherwise it raises DoesNotExist without fallback, and with fallback
\* returns the page's Title of the earliest fallback-chain language the page
\* has a Title for, or None; storing the rows in another order gives the same
\* Title.
C5_GetTitleResult ==
    last.op = "get_title" =>
        /\ last.ret \in ExpectedTitle(db, last.page, LastLanguage, last.perm, last.fallbacks)
        /\ \A perm \in Permutations(DOMAIN db) :
              LET shuffled == [i \in DOMAIN db |-> db[perm[i]]]
                  other == get_title(shuffled, last.page, LastLanguage, last.perm, last.fallbacks)
              IN /\ other.kind = last.ret.kind
                 /\ other.kind = "title" => shuffled[other.pk] = db[last.ret.pk]

\* get_title fell back to the first language of the chain although the page's
\* Title of the second language of the chain is stored before it
C5_Witness ==
    /\ last.op = "get_title"
    /\ last.perm
    /\ RowsFor(db, last.page, LastLanguage) = {}
    /\ Len(last.fallbacks) >= 2
    /\ last.ret.kind = "title"
    /\ db[last.ret.pk].language = last.fallbacks[1]
    /\ \E j \in RowsFor(db, last.page, last.fallbacks[2]) : j < last.ret.pk

\* C6: update_path leaves an instance with has_url_overwrite alone;
\* otherwise it sets path to '{parent.path}/{slug}' when the page has a parent
\* whose Title resolves for the instance's language (exactly, else through the
\* fallback chain), and to the bare slug when the page is a root or the parent
\* has no such Title.
C6_UpdatePathResult ==
    last.op = "update_path" =>
        LET pre == last.obj
            parent == pages[pre.page].parent
            resolved == IF parent = 0 THEN {}
                        ELSE {r \in ExpectedTitle(last.db, parent, pre.language, TRUE, last.fallbacks) :
                                r.kind = "title"}
        IN IF pre.has_url_overwrite THEN obj = pre
           ELSE IF resolved # {}
           THEN \E r \in resolved : obj = [pre EXCEPT !.path = last.db[r.pk].path \o "/" \o pre.slug]
           ELSE obj = [pre EXCEPT !.path = pre.slug]

\* update_path joined the path of a parent Title found only through the
\* fallback chain
C6_Witness ==
    /\ last.op = "update_path"
    /\ ~last.obj.has_url_overwrite
    /\ last.obj.slug # ""
    /\ pages[last.obj.page].parent # 0
    /\ RowsFor(db, pages[last.obj.page].parent, last.obj.language) = {}
    /\ \E i \in DOMAIN db :
          /\ db[i].alive /\ db[i].page = pages[last.obj.page].parent
          /\ obj.path = db[i].path \o "/" \o last.obj.slug

\* C2: after save_base the instance is dirty iff it was dirty before, or it
\* is a draft saved without the keep-state flag that has no key, or no stored
\* row, or differs from its stored row in a tracked field; a public instance,
\* or one saved with the flag, keeps its publisher_state.
C2_SaveMarksDirty ==
    last.op = "save" =>
        LET pre == last.obj IN
        /\ obj.publisher_state = PUBLISHER_STATE_DIRTY <=>
              \/ pre.publisher_state = PUBLISHER_STATE_DIRTY
              \/ pre.publisher_is_draft /\ ~pre.keep /\ DiffersFromStored(pre, last.db)
        /\ ~pre.publisher_is_draft \/ pre.keep => obj.publisher_state = pre.publisher_state

\* a stored, clean draft whose redirect alone was changed got dirty by a save
\* without the flag
C2_Witness ==
    /\ last.op = "save"
    /\ last.obj.pk \in Alive(last.db)
    /\ last.obj.publisher_is_draft /\ ~last.obj.keep
    /\ last.obj.publisher_state = PUBLISHER_STATE_DEFAULT
    /\ last.obj.redirect # last.db[last.obj.pk].redirect
    /\ last.obj.slug = last.db[last.obj.pk].slug
    /\ obj.publisher_state = PUBLISHER_STATE_DIRTY

\* C10: a save of an instance carrying the keep-state flag removes the flag
\* and leaves publisher_state alone; a save of a draft without the flag marks
\* it dirty whenever a tracked field differs from the stored row; and the save
\* that directly follows an exempted save changes publisher_state no more.
C10_KeepStateOneShot ==
    last.op = "save" =>
        LET pre == last.obj IN
        /\ pre.keep => ~obj.keep /\ obj.publisher_state = pre.publisher_state
        /\ ~pre.keep /\ pre.publisher_is_draft /\ DiffersFromStored(pre, last.db) =>
              obj.publisher_state = PUBLISHER_STATE_DIRTY
        /\ last.prev.op = "save" /\ last.prev.exempt /\ last.prev.ok =>
              obj.publisher_state = pre.publisher_state

\* an exempted save stored a changed tracked field of a clean draft, and the
\* next save, made without the flag, left the draft clean
C10_Witness ==
    /\ last.op = "save"
    /\ last.prev.op = "save" /\ last.prev.exempt /\ last.prev.ok /\ last.prev.changed
    /\ last.obj.pk \in Alive(last.db)
    /\ last.obj.publisher_is_draft /\ ~last.obj.keep
    /\ obj.publisher_state = PUBLISHER_STATE_DEFAULT

\* the Title field a form field feeds
FormFieldOf(f) == IF f \in {"path", "has_url_overwrite"} THEN "overwrite_url" ELSE f

FormFedFields ==
    { "slug", "title", "meta_description", "page_title", "menu_title", "redirect",
      "path", "has_url_overwrite" }

\* C3: set_or_create on an existing (page, language) leaves every Title field
\* alone whose form field is not among the form's declared fields.
C3_UndeclaredUntouched ==
    last.op = "set_or_create" =>
        \A i \in RowsFor(last.db, last.page, LastLanguage) :
            \A f \in FormFedFields :
                FormFieldOf(f) \notin last.form.base_fields => db[i][f] = last.db[i][f]

\* C7: without the advanced-settings permission an update leaves
\* has_url_overwrite, path and redirect of the stored Title alone, and a create
\* stores a Title without url overwrite, with the default path and no redirect.
C7_AdvancedGated ==
    last.op = "set_or_create" /\ ~last.perm =>
        LET before == RowsFor(last.db, last.page, LastLanguage) IN
        IF before # {}
        THEN \A i \in before :
                /\ db[i].has_url_overwrite = last.db[i].has_url_overwrite
                /\ db[i].path = last.db[i].path
                /\ db[i].redirect = last.db[i].redirect
        ELSE /\ last.ret.ok
             /\ ~db[last.ret.inst.pk].has_url_overwrite
             /\ db[last.ret.inst.pk].path = ""
             /\ db[last.ret.inst.pk].redirect = NONE

\* an update without the permission, whose form declares and carries an
\* overwrite_url and a redirect, was saved and left a Title without either
C7_Witness ==
    /\ last.op = "set_or_create" /\ ~last.perm
    /\ last.ret.ok
    /\ {"overwrite_url", "redirect"} \subseteq last.form.base_fields
    /\ last.form.cleaned_data["overwrite_url"] = "o"
    /\ last.form.cleaned_data["redirect"] = "r"
    /\ \E i \in RowsFor(last.db, last.page, LastLanguage) :
          ~db[i].has_url_overwrite /\ db[i].path = "old" /\ db[i].redirect = NONE

\* C9: every (page, language) passed to set_or_create has exactly one draft
\* Title and no pair has two public ones; a call for a pair without a Title
\* adds one row, a call for a pair with a Title adds none and returns that row
\* (it raises only when the form declares a slug or title it does not carry).
C9_OneDraftPerPair ==
    /\ \A k \in called :
          Cardinality({i \in RowsFor(db, k[1], k[2]) : db[i].publisher_is_draft}) = 1
    /\ \A k \in Pages \X Langs :
          Cardinality({i \in RowsFor(db, k[1], k[2]) : ~db[i].publisher_is_draft}) <= 1
    /\ last.op = "set_or_create" =>
          LET before == RowsFor(last.db, last.page, LastLanguage)
              complete == \A n \in last.form.base_fields \cap {"slug", "title"} :
                              last.form.cleaned_data[n] # ABSENT
          IN IF before = {} THEN last.ret.ok /\ Len(db) = Len(last.db) + 1
             ELSE /\ Len(db) = Len(last.db)
                  /\ last.ret.ok => last.ret.inst.pk \in before
                  /\ complete => last.ret.ok

\* a second Title exists and set_or_create was called again for a pair that
\* had one
C9_Witness ==
    /\ last.op = "set_or_create"
    /\ last.ret.ok
    /\ RowsFor(last.db, last.page, LastLanguage) # {}
    /\ Len(db) >= 2
    /\ Cardinality(called) >= 2

\* C4: the path of every Title without url overwrite is the derived one: the
\* slug for a root page (or a page whose parent has no Title), else the path of
\* a Title of the parent page, '/', the slug.
C4_PathDerived ==
    \A i \in DOMAIN db :
        db[i].alive /\ ~db[i].has_url_overwrite =>
            LET parent == pages[db[i].page].parent
                parents == {j \in DOMAIN db : db[j].alive /\ db[j].page = parent}
            IN IF parent = 0 \/ parents = {} THEN db[i].path = db[i].slug
               ELSE \E j \in parents : db[i].path = db[j].path \o "/" \o db[i].slug

\* C8 as claimed: without a site and without a current site, on_site holds
\* every page.
C8_Unscoped ==
    last.op = "on_site" /\ last.site = {} /\ current_site = {} => last.ret = Pages

\* C8 amended: on_site holds exactly the pages of the given site, else of
\* the current site, else, when none resolves, the pages that have no site.
C8_OnSiteFilter ==
    last.op = "on_site" =>
        IF last.site # {} THEN last.ret = {p \in Pages : pages[p].site = last.site}
        ELSE IF current_site # {} THEN last.ret = {p \in Pages : pages[p].site = current_site}
        ELSE last.ret = {p \in Pages : pages[p].site = {}}

\* on_site ran without a site while no current site resolves, and left out a
\* page that belongs to a site
C8_Witness ==
    /\ last.op = "on_site" /\ last.site = {} /\ current_site = {}
    /\ \E p \in Pages : pages[p].site # {} /\ p \notin last.ret

====
